---- MODULE Spec2Model ----
(***************************************************************************)
(* PIXIE image tool: the batch driver (src/src/batch.rs), the single-file  *)
(* pipeline (src/src/lib.rs), the encoder (src/src/compressor.rs) and the  *)
(* loader (src/src/loader.rs), as state machines.                          *)
(*                                                                         *)
(* Three specifications share this module:                                 *)
(*   Spec         a process making up to MaxCalls calls of                 *)
(*                BatchProcessor::process_directory on one directory tree  *)
(*   SpecProcess  one call of ImageProcessor::process, stage by stage      *)
(*   SpecSavings  ImageCompressor::calculate_savings on sampled sizes      *)
(* Each leaves the other specifications' variables at their initial value. *)
(***************************************************************************)
EXTENDS Integers, Sequences, FiniteSets, TLC

(***************************************************************************)
(* Bounds of the model (not program constants).                            *)
(***************************************************************************)
\* process_directory calls made by one process
MaxCalls == 2
\* largest explicit thread count given to BatchProcessor::new
MaxThreads == 1
\* hardware parallelism rayon uses when no pool was configured
NumCpus == 2
\* width in bits of the unsigned size type (u64 in the source, scaled down)
WordBits == 12
\* largest counter of a generated file name that may already exist
MaxCandidate == 2

(***************************************************************************)
(* File names are sequences of one-character strings, so that extension    *)
(* extraction and lower-casing are computed, not assumed.                  *)
(***************************************************************************)
UpperLetters == <<"A","B","C","D","E","F","G","H","I","J","K","L","M",
                  "N","O","P","Q","R","S","T","U","V","W","X","Y","Z">>

LowerLetters == <<"a","b","c","d","e","f","g","h","i","j","k","l","m",
                  "n","o","p","q","r","s","t","u","v","w","x","y","z">>

\* char::to_lowercase on the ASCII letters
LowerChar(c) ==
    IF \E k \in 1..26 : UpperLetters[k] = c
    THEN LowerLetters[CHOOSE k \in 1..26 : UpperLetters[k] = c]
    ELSE c

\* str::to_lowercase
ToLowercase(s) == [k \in 1..Len(s) |-> LowerChar(s[k])]

\* index of the last "." of a name, 0 when there is none
LastDot(name) ==
    LET dots == {k \in 1..Len(name) : name[k] = "."}
    IN  IF dots = {} THEN 0 ELSE CHOOSE k \in dots : \A j \in dots : j <= k

\* Path::extension of a file name, as an Option: {} is None, {e} is Some(e).
\* None when the name has no ".", or begins with "." and has no other ".".
Extension(name) ==
    LET d == LastDot(name)
    IN  IF d <= 1 THEN {} ELSE {SubSeq(name, d + 1, Len(name))}

\* image_extensions of collect_image_paths
ImageExtensions ==
    { <<"j","p","g">>, <<"j","p","e","g">>, <<"p","n","g">>, <<"g","i","f">>,
      <<"b","m","p">>, <<"t","i","f","f">>, <<"t","i","f">>, <<"w","e","b","p">> }

\* the filter without the to_lowercase() call
HasImageExtensionCaseSensitive(name) ==
    \E e \in Extension(name) : e \in ImageExtensions

\* the extension filter of collect_image_paths
HasImageExtension(name) ==
    \E e \in Extension(name) : ToLowercase(e) \in ImageExtensions

\* ImageCompressor::detect_format: an exact, case-sensitive match of the
\* destination's extension, JPEG otherwise
detect_format(name) ==
    LET ext == Extension(name)
    IN  IF ext = {} THEN "Jpeg"
        ELSE LET e == CHOOSE x \in ext : TRUE
             IN  IF e \in {<<"j","p","g">>, <<"j","p","e","g">>} THEN "Jpeg"
                 ELSE IF e = <<"p","n","g">> THEN "Png"
                 ELSE IF e = <<"g","i","f">> THEN "Gif"
                 ELSE IF e = <<"b","m","p">> THEN "Bmp"
                 ELSE IF e = <<"w","e","b","p">> THEN "WebP"
                 ELSE IF e \in {<<"t","i","f","f">>, <<"t","i","f">>} THEN "Tiff"
                 ELSE "Jpeg"

\* the encode step of ImageCompressor::save: the WebP arm hands write_to
\* ImageOutputFormat::Unsupported, which write_to rejects
EncodeSupported(format) == format # "WebP"

(***************************************************************************)
(* The input tree.  Entry 0 is the input path itself; the other entries    *)
(* are what may lie under it.  An entry is present or not (chosen in Init).*)
(***************************************************************************)
Entry ==
    [ i \in 0..6 |->
        CASE i = 0 -> [depth |-> 0, parent |-> 0, kind |-> "root",
                       name |-> <<"i",".","j","p","g">>]
          [] i = 1 -> [depth |-> 1, parent |-> 0, kind |-> "file",
                       name |-> <<"a",".","j","p","g">>]
          [] i = 2 -> [depth |-> 1, parent |-> 0, kind |-> "file",
                       name |-> <<"b",".","P","N","G">>]
          [] i = 3 -> [depth |-> 1, parent |-> 0, kind |-> "file",
                       name |-> <<"n",".","t","x","t">>]
          [] i = 4 -> [depth |-> 1, parent |-> 0, kind |-> "file",
                       name |-> <<"c",".","w","e","b","p">>]
          [] i = 5 -> [depth |-> 1, parent |-> 0, kind |-> "dir",
                       name |-> <<"s",".","j","p","g">>]
          [] OTHER -> [depth |-> 2, parent |-> 5, kind |-> "file",
                       name |-> <<"a",".","j","p","g">>] ]

EntryIds == 1..6

Names == {Entry[i].name : i \in 0..6}

(***************************************************************************)
(* State.                                                                  *)
(***************************************************************************)
VARIABLES
    \* --- the file system a batch run sees
    inputKind,      \* the input path: "dir", "file" or "missing"
    present,        \* the entries (EntryIds) that exist under the input path
    corrupt,        \* the present files whose bytes do not decode
    outKind,        \* the output path: "dir", "file" or "absent"
    outCreatable,   \* whether create_dir_all can create an absent output path
    outFiles,       \* content of each name in the output directory
    \* --- the process
    poolSize,       \* threads of rayon's global pool, 0 while it is not built
    calls,          \* process_directory calls started so far
    \* --- one BatchProcessor and its current run
    max_threads,    \* BatchProcessor.max_threads
    recursive,      \* the recursive argument
    validated,      \* validate_paths was called and returned Ok
    pc,             \* position of the driver in the run
    image_paths,    \* the discovered paths (entry ids), in traversal order
    task,           \* per discovered path: its task's position and outcome
    pbLen,          \* length of the progress bar
    pos,            \* position of the progress bar
    warned,         \* the log::warn! lines of failed files, in completion order
    dirCreates,     \* who called create_dir_all in this run, in order
    completed,      \* the tasks of this run, in the order they completed
    phases,         \* the phases this run of process_directory went through
    result,         \* what the run returned
    \* --- one call of ImageProcessor::process (SpecProcess)
    cfg,            \* ProcessConfig: strip_metadata, width, height, scale
    srcState,       \* the source file: "ok", "corrupt" or "missing"
    destName,       \* file name of the destination path
    destBefore,     \* the destination before the call: "absent" or "old"
    destNow,        \* the destination now: "absent", "old", "empty", "full"
    destCreatable,  \* whether File::create on the destination can succeed
    writeOk,        \* whether the writes of write_to succeed
    ppc,            \* position in process
    trace,          \* the stages that ran, in order
    raised,         \* the first error a stage returned, and the stage
    mode,           \* the ResizeMode handed to the resizer
    format,         \* the ImageFormat save resolved for the destination
    presult,        \* what process returned
    \* --- one call of ImageCompressor::calculate_savings (SpecSavings)
    original_size,  \* first argument
    compressed_size,\* second argument
    overflowChecks, \* the build's overflow checks (on in debug builds)
    savings,        \* what the call did
    \* --- one call of generate_output_path (SpecOutputPath)
    input_dir,      \* the directory of input_path
    output,         \* the output argument, as an Option: {} or {path}
    fs,             \* the generated names that exist, per directory
    new_filename,   \* the name under test: 0 without counter, c with counter c
    counter,        \* the loop's counter
    gpc,            \* position in generate_output_path
    generated       \* the path returned

batchVars ==
    << inputKind, present, corrupt, outKind, outCreatable, outFiles, poolSize,
       calls, max_threads, recursive, validated, pc, image_paths, task, pbLen,
       pos, warned, dirCreates, completed, phases, result >>

procVars ==
    << cfg, srcState, destName, destBefore, destNow, destCreatable, writeOk,
       ppc, trace, raised, mode, format, presult >>

savVars == << original_size, compressed_size, overflowChecks, savings >>

pathVars == << input_dir, output, fs, new_filename, counter, gpc, generated >>

vars == << batchVars, procVars, savVars, pathVars >>

NoResult == [kind |-> "none", by |-> "none", error |-> "none", cause |-> "none",
             processed_count |-> 0, errors |-> <<>>]

\* Err(e) returned by `by`
ErrResult(by, error, cause) ==
    [kind |-> "Err", by |-> by, error |-> error, cause |-> cause,
     processed_count |-> 0, errors |-> <<>>]

\* Ok(n) of process_directory: the payload is a bare usize; it carries no
\* (path, error) entries
OkResult(n) ==
    [kind |-> "Ok", by |-> "process_directory", error |-> "none",
     cause |-> "none", processed_count |-> n, errors |-> <<>>]

(***************************************************************************)
(* Discovery: BatchProcessor::collect_image_paths.                         *)
(***************************************************************************)
\* entry.file_type().is_file(); WalkDir does not follow symbolic links
IsFile(i) ==
    IF i = 0 THEN inputKind = "file" ELSE Entry[i].kind = "file"

\* the entries WalkDir yields: the root when it exists, its children when it
\* is a directory, deeper entries only without max_depth(1).  A missing root
\* yields one Err entry, which filter_map(entry.ok()) drops.
Walked(i) ==
    IF i = 0 THEN inputKind # "missing"
    ELSE /\ inputKind = "dir"
         /\ i \in present
         /\ Entry[i].depth = 1 \/ recursive

\* the filter chain of collect_image_paths on one entry
Discovered(i) ==
    Walked(i) /\ IsFile(i) /\ HasImageExtension(Entry[i].name)

RECURSIVE CollectFrom(_)
CollectFrom(i) ==
    IF i > 6 THEN <<>>
    ELSE (IF Discovered(i) THEN <<i>> ELSE <<>>) \o CollectFrom(i + 1)

collect_image_paths == CollectFrom(0)

\* output_dir.join(input_path.file_name()) of process_single_image
output_path(i) == Entry[i].name

(***************************************************************************)
(* The per-file pipeline as a batch task runs it.                          *)
(***************************************************************************)
\* ImageLoader::load: a missing path is InvalidParameter, bytes that do not
\* decode are ProcessingError
LoadOutcome(exists, decodes) ==
    IF ~exists THEN "InvalidParameter"
    ELSE IF ~decodes THEN "ProcessingError"
    ELSE "ok"

\* runs counts the calls of process_single_image on the item
QueuedTask == [st |-> "queued", res |-> 0, err |-> "none", runs |-> 0]

TaskIds == DOMAIN task

\* tasks a worker of the pool is busy with
InFlight == {k \in TaskIds : task[k].st \in {"ticked", "save", "open"}}

\* a shared count each worker stores its own value into: what the task that
\* completed last wrote
SumResLastWriter(k) ==
    IF k = 0 \/ completed = <<>> THEN 0 ELSE task[completed[Len(completed)]].res

RECURSIVE SumRes(_)
\* .sum() over the values the map closure returned
SumRes(k) == IF k = 0 THEN 0 ELSE task[k].res + SumRes(k - 1)

(***************************************************************************)
(* Actions of a batch run.                                                 *)
(***************************************************************************)
\* BatchProcessor::validate_paths, which the command-line driver calls
\* before process_directory; a caller of the library need not
ValidatePaths ==
    /\ pc = "Idle"
    /\ ~validated
    /\ IF inputKind = "missing"
       THEN /\ result' = ErrResult("validate_paths", "InvalidParameter", "input_missing")
            /\ pc' = "Done"
            /\ UNCHANGED validated
       ELSE IF inputKind # "dir"
       THEN /\ result' = ErrResult("validate_paths", "InvalidParameter", "input_not_dir")
            /\ pc' = "Done"
            /\ UNCHANGED validated
       ELSE IF outKind = "file"
       THEN /\ result' = ErrResult("validate_paths", "InvalidParameter", "output_not_dir")
            /\ pc' = "Done"
            /\ UNCHANGED validated
       ELSE /\ validated' = TRUE
            /\ UNCHANGED << pc, result >>
    /\ UNCHANGED << inputKind, present, corrupt, outKind, outCreatable, outFiles,
                    poolSize, calls, max_threads, recursive, image_paths, task,
                    pbLen, pos, warned, dirCreates >>
    /\ UNCHANGED completed
    /\ UNCHANGED phases
    /\ UNCHANGED << procVars, savVars, pathVars >>

\* process_directory, entry: with max_threads > 0 it builds rayon's global
\* pool, which fails once the pool exists
SetUpPool ==
    /\ pc = "Idle"
    /\ calls' = calls + 1
    /\ IF max_threads > 0 /\ poolSize # 0
       THEN /\ result' = ErrResult("process_directory", "ProcessingError", "thread_pool")
            /\ pc' = "Done"
            /\ phases' = Append(phases, "Aborted")
            /\ UNCHANGED poolSize
       ELSE /\ poolSize' = IF max_threads > 0 THEN max_threads ELSE poolSize
            /\ pc' = "Discovering"
            /\ phases' = Append(phases, "Discovering")
            /\ UNCHANGED result
    /\ UNCHANGED << inputKind, present, corrupt, outKind, outCreatable, outFiles,
                    max_threads, recursive, validated, image_paths, task, pbLen,
                    pos, warned, dirCreates >>
    /\ UNCHANGED completed
    /\ UNCHANGED << procVars, savVars, pathVars >>

\* process_directory: collect_image_paths, the empty case, the progress bar
Discover ==
    /\ pc = "Discovering"
    /\ image_paths' = collect_image_paths
    /\ IF collect_image_paths = <<>>
       THEN /\ result' = OkResult(0)
            /\ pc' = "Done"
            /\ phases' = Append(phases, "Done")
            /\ UNCHANGED << pbLen, pos >>
       ELSE /\ pbLen' = Len(collect_image_paths)
            /\ pos' = 0
            /\ pc' = "Creating"
            /\ UNCHANGED << result, phases >>
    /\ UNCHANGED << inputKind, present, corrupt, outKind, outCreatable, outFiles,
                    poolSize, calls, max_threads, recursive, validated, task,
                    warned, dirCreates >>
    /\ UNCHANGED completed
    /\ UNCHANGED << procVars, savVars, pathVars >>

\* process_directory: create_dir_all(output_dir)?, then the parallel
\* iterator starts (building the global pool if nothing built it before)
CreateOutputDir ==
    /\ pc = "Creating"
    /\ IF outKind = "dir" \/ (outKind = "absent" /\ outCreatable)
       THEN /\ outKind' = "dir"
            /\ dirCreates' = Append(dirCreates, "driver")
            /\ task' = [k \in 1..Len(image_paths) |-> QueuedTask]
            /\ poolSize' = IF poolSize = 0 THEN NumCpus ELSE poolSize
            /\ pc' = "Processing"
            /\ phases' = Append(phases, "Processing")
            /\ UNCHANGED result
       ELSE /\ result' = ErrResult("process_directory", "Io", "create_dir")
            /\ pc' = "Done"
            /\ phases' = Append(phases, "Aborted")
            /\ UNCHANGED << outKind, dirCreates, task, poolSize >>
    /\ UNCHANGED << inputKind, present, corrupt, outCreatable, outFiles, calls,
                    max_threads, recursive, validated, image_paths, pbLen, pos,
                    warned >>
    /\ UNCHANGED completed
    /\ UNCHANGED << procVars, savVars, pathVars >>

\* .progress_with(pb): the item passes the progress adaptor, which advances
\* the bar, before it reaches the .map closure
Tick(k) ==
    /\ pc = "Processing"
    /\ task[k].st = "queued"
    /\ Cardinality(InFlight) < poolSize
    /\ pos' = pos + 1
    /\ task' = [task EXCEPT ![k].st = "ticked"]
    /\ UNCHANGED << inputKind, present, corrupt, outKind, outCreatable, outFiles,
                    poolSize, calls, max_threads, recursive, validated, pc,
                    image_paths, pbLen, warned, dirCreates, result >>
    /\ UNCHANGED completed
    /\ UNCHANGED phases
    /\ UNCHANGED << procVars, savVars, pathVars >>

\* a failure handler that logs the error and counts the file all the same
TaskFailedCounted(k, e, t) ==
    /\ task' = [task EXCEPT ![k] = [t EXCEPT !.st = "done", !.res = 1, !.err = e]]
    /\ warned' = Append(warned, [context |-> image_paths[k], error |-> e])
    /\ completed' = Append(completed, k)

\* a failed task: unwrap_or_else logs the error and yields 0
TaskFailed(k, e, t) ==
    /\ task' = [task EXCEPT ![k] = [t EXCEPT !.st = "done", !.res = 0, !.err = e]]
    /\ warned' = Append(warned, [context |-> image_paths[k], error |-> e])
    /\ completed' = Append(completed, k)

\* the map closure calls process_single_image on its item
Invoked(t) == [t EXCEPT !.runs = @ + 1]

\* a worker that calls process_single_image again after a first failed load
LoadStripResizeRetrying(k) ==
    /\ pc = "Processing"
    /\ task[k].st = "ticked"
    /\ LET o == LoadOutcome(TRUE, image_paths[k] \notin corrupt)
       IN  IF o = "ok"
           THEN /\ task' = [task EXCEPT ![k] = [Invoked(@) EXCEPT !.st = "save"]]
                /\ UNCHANGED << warned, completed >>
           ELSE IF task[k].runs = 0
           THEN /\ task' = [task EXCEPT ![k] = Invoked(@)]
                /\ UNCHANGED << warned, completed >>
           ELSE TaskFailed(k, o, Invoked(task[k]))
    /\ UNCHANGED << inputKind, present, corrupt, outKind, outCreatable, outFiles,
                    poolSize, calls, max_threads, recursive, validated, pc,
                    image_paths, pbLen, pos, dirCreates, result >>
    /\ UNCHANGED phases
    /\ UNCHANGED << procVars, savVars, pathVars >>

\* process_single_image up to the save: file_name, join, then load, strip and
\* resize of ImageProcessor::process, of which only the load can return Err
LoadStripResize(k) ==
    /\ pc = "Processing"
    /\ task[k].st = "ticked"
    /\ LET o == LoadOutcome(TRUE, image_paths[k] \notin corrupt)
       IN  IF o = "ok"
           THEN /\ task' = [task EXCEPT ![k] = [Invoked(@) EXCEPT !.st = "save"]]
                /\ UNCHANGED << warned, completed >>
           ELSE TaskFailed(k, o, Invoked(task[k]))
    /\ UNCHANGED << inputKind, present, corrupt, outKind, outCreatable, outFiles,
                    poolSize, calls, max_threads, recursive, validated, pc,
                    image_paths, pbLen, pos, dirCreates, result >>
    /\ UNCHANGED phases
    /\ UNCHANGED << procVars, savVars, pathVars >>

\* a worker that makes the destination's directory itself before creating
\* the file
SaveCreateMakingDir(k) ==
    /\ pc = "Processing"
    /\ task[k].st = "save"
    /\ dirCreates' = Append(dirCreates, "worker")
    /\ outFiles' = [outFiles EXCEPT ![output_path(image_paths[k])] = "empty"]
    /\ task' = [task EXCEPT ![k].st = "open"]
    /\ UNCHANGED << inputKind, present, corrupt, outKind, outCreatable, poolSize,
                    calls, max_threads, recursive, validated, pc, image_paths,
                    pbLen, pos, warned, result >>
    /\ UNCHANGED completed
    /\ UNCHANGED phases
    /\ UNCHANGED << procVars, savVars, pathVars >>

\* ImageCompressor::save: File::create(path) creates or truncates the file
SaveCreate(k) ==
    /\ pc = "Processing"
    /\ task[k].st = "save"
    /\ outFiles' = [outFiles EXCEPT ![output_path(image_paths[k])] = "empty"]
    /\ task' = [task EXCEPT ![k].st = "open"]
    /\ UNCHANGED << inputKind, present, corrupt, outKind, outCreatable, poolSize,
                    calls, max_threads, recursive, validated, pc, image_paths,
                    pbLen, pos, warned, dirCreates, result >>
    /\ UNCHANGED completed
    /\ UNCHANGED phases
    /\ UNCHANGED << procVars, savVars, pathVars >>

\* ImageCompressor::save: write_to in the detected format, then Ok(1)
SaveEncode(k) ==
    /\ pc = "Processing"
    /\ task[k].st = "open"
    /\ IF EncodeSupported(detect_format(output_path(image_paths[k])))
       THEN /\ outFiles' = [outFiles EXCEPT ![output_path(image_paths[k])] = "full"]
            /\ task' = [task EXCEPT ![k] = [@ EXCEPT !.st = "done", !.res = 1]]
            /\ completed' = Append(completed, k)
            /\ UNCHANGED warned
       ELSE /\ TaskFailed(k, "Image", task[k])
            /\ UNCHANGED outFiles
    /\ UNCHANGED << inputKind, present, corrupt, outKind, outCreatable, poolSize,
                    calls, max_threads, recursive, validated, pc, image_paths,
                    pbLen, pos, dirCreates, result >>
    /\ UNCHANGED phases
    /\ UNCHANGED << procVars, savVars, pathVars >>

\* process_directory: .sum() returns once every task is done
SumResults ==
    /\ pc = "Processing"
    /\ \A k \in TaskIds : task[k].st = "done"
    /\ pc' = "Finalizing"
    /\ phases' = Append(phases, "Finalizing")
    /\ UNCHANGED << inputKind, present, corrupt, outKind, outCreatable, outFiles,
                    poolSize, calls, max_threads, recursive, validated,
                    image_paths, task, pbLen, pos, warned, dirCreates, completed,
                    result >>
    /\ UNCHANGED << procVars, savVars, pathVars >>

\* process_directory: finish the bar, Ok(processed_count)
Finalize ==
    /\ pc = "Finalizing"
    /\ pos' = pbLen
    /\ result' = OkResult(SumRes(Len(image_paths)))
    /\ pc' = "Done"
    /\ phases' = Append(phases, "Done")
    /\ UNCHANGED << inputKind, present, corrupt, outKind, outCreatable, outFiles,
                    poolSize, calls, max_threads, recursive, validated,
                    image_paths, task, pbLen, warned, dirCreates >>
    /\ UNCHANGED completed
    /\ UNCHANGED << procVars, savVars, pathVars >>

\* the process goes on to another run, with a new BatchProcessor
NextCall ==
    /\ pc = "Done"
    /\ calls < MaxCalls
    /\ result.by = "process_directory"
    /\ max_threads' \in 0..MaxThreads
    /\ pc' = "Idle"
    /\ image_paths' = <<>>
    /\ task' = <<>>
    /\ pbLen' = 0
    /\ pos' = 0
    /\ warned' = <<>>
    /\ dirCreates' = <<>>
    /\ completed' = <<>>
    /\ phases' = <<"Idle">>
    /\ result' = NoResult
    /\ UNCHANGED << inputKind, present, corrupt, outKind, outCreatable, outFiles,
                    poolSize, calls, recursive, validated >>
    /\ UNCHANGED << procVars, savVars, pathVars >>

(***************************************************************************)
(* ImageProcessor::process, one call, stage by stage.                      *)
(***************************************************************************)
\* widths and heights a ProcessConfig is given (u32)
DimValues == {0, 100}

\* scales a ProcessConfig is given (f32; only the sign matters to process)
ScaleValues == {0 - 1, 0, 2}

\* destination file names of a single-file call
DestNames ==
    { <<"o",".","j","p","g">>, <<"o",".","P","N","G">>,
      <<"o",".","w","e","b","p">>, <<"o">> }

NoMode == [kind |-> "none", factor |-> 0, width |-> 0, height |-> 0]

NoError == [stage |-> "none", error |-> "none"]

\* the condition of process under which the resizer is called
ResizeRequested(c) == c.width > 0 \/ c.height > 0 \/ c.scale > 0

\* the ResizeMode process derives from the config: scale first
ResizeModeOf(c) ==
    IF c.scale > 0
    THEN [kind |-> "Scale", factor |-> c.scale, width |-> 0, height |-> 0]
    ELSE [kind |-> "Absolute", factor |-> 0, width |-> c.width, height |-> c.height]

\* a stage call whose `?` is missing: the pipeline goes on whatever it returned
AfterStageUnchecked(o, next) == next

\* the `?` after a stage: go on when it returned Ok, return its Err otherwise
AfterStage(o, next) == IF o = "ok" THEN next ELSE "returned"

\* what a stage that returned `o` leaves of the call's bookkeeping
StageDone(stage, o, next) ==
    /\ trace' = Append(trace, stage)
    /\ ppc' = AfterStage(o, next)
    /\ raised' = IF o = "ok" \/ raised # NoError THEN raised
                 ELSE [stage |-> stage, error |-> o]
    /\ presult' = IF o = "ok" \/ presult # "none" THEN presult ELSE o

\* loader.load(input_path)?
PLoad ==
    /\ ppc = "load"
    /\ StageDone("Load", LoadOutcome(srcState # "missing", srcState = "ok"), "strip")
    /\ UNCHANGED << cfg, srcState, destName, destBefore, destNow, destCreatable,
                    writeOk, mode, format >>
    /\ UNCHANGED << batchVars, savVars, pathVars >>

\* if strip_metadata { stripper.strip_metadata(&mut image)? }, which is Ok(())
PStrip ==
    /\ ppc = "strip"
    /\ IF cfg.strip_metadata
       THEN StageDone("Strip", "ok", "resize")
       ELSE /\ ppc' = "resize"
            /\ UNCHANGED << trace, raised, presult >>
    /\ UNCHANGED << cfg, srcState, destName, destBefore, destNow, destCreatable,
                    writeOk, mode, format >>
    /\ UNCHANGED << batchVars, savVars, pathVars >>

\* if width > 0 || height > 0 || scale > 0.0 { image = resizer.resize(..) }
PResize ==
    /\ ppc = "resize"
    /\ IF ResizeRequested(cfg)
       THEN /\ mode' = ResizeModeOf(cfg)
            /\ StageDone("Resize", "ok", "save")
       ELSE /\ ppc' = "save"
            /\ UNCHANGED << mode, trace, raised, presult >>
    /\ UNCHANGED << cfg, srcState, destName, destBefore, destNow, destCreatable,
                    writeOk, format >>
    /\ UNCHANGED << batchVars, savVars, pathVars >>

\* compressor.save: detect_format, then File::create(path)?
PSaveCreate ==
    /\ ppc = "save"
    /\ format' = detect_format(destName)
    /\ IF destCreatable
       THEN /\ destNow' = "empty"
            /\ StageDone("Save", "ok", "encode")
       ELSE /\ StageDone("Save", "Io", "encode")
            /\ UNCHANGED destNow
    /\ UNCHANGED << cfg, srcState, destName, destBefore, destCreatable, writeOk,
                    mode >>
    /\ UNCHANGED << batchVars, savVars, pathVars >>

\* compressor.save: image.write_to(writer, format)?, then Ok(()) of process
PSaveEncode ==
    /\ ppc = "encode"
    /\ IF EncodeSupported(format) /\ writeOk
       THEN /\ destNow' = "full"
            /\ presult' = "Ok"
            /\ ppc' = "returned"
            /\ UNCHANGED raised
       ELSE /\ presult' = "Image"
            /\ raised' = [stage |-> "Save", error |-> "Image"]
            /\ ppc' = "returned"
            /\ UNCHANGED destNow
    /\ UNCHANGED << cfg, srcState, destName, destBefore, destCreatable, writeOk,
                    mode, format, trace >>
    /\ UNCHANGED << batchVars, savVars, pathVars >>

(***************************************************************************)
(* ImageCompressor::calculate_savings.                                     *)
(***************************************************************************)
\* the sizes tried, within the word
SizeSamples == {0, 1, 2, 1000, 1200, 2 ^ WordBits - 1}

\* (original_size - compressed_size) on the unsigned word: with overflow
\* checks the subtraction panics below zero, without them it wraps
\* the percentage is kept as the fraction num/den
calculate_savings(o, c, checks) ==
    IF o = 0 THEN [kind |-> "value", num |-> 0, den |-> 1]
    ELSE IF c > o /\ checks THEN [kind |-> "panic", num |-> 0, den |-> 1]
    ELSE LET diff == (o - c) % (2 ^ WordBits)
         IN  [kind |-> "value",
              num |-> IF diff * 100 > 0 THEN diff * 100 ELSE 0,
              den |-> o]

CalculateSavings ==
    /\ savings.kind = "none"
    /\ savings' = calculate_savings(original_size, compressed_size, overflowChecks)
    /\ UNCHANGED << original_size, compressed_size, overflowChecks >>
    /\ UNCHANGED << batchVars, procVars, pathVars >>

(***************************************************************************)
(* utils::generate_output_path.  A generated name is                       *)
(* "{stem}_{suffix}_{timestamp}.{ext}" or, with a counter c >= 1,          *)
(* "{stem}_{suffix}_{timestamp}_{c}.{ext}"; for one call these are         *)
(* distinct names, written 0 and c.                                        *)
(***************************************************************************)
\* the working directory and another directory
Dirs == {"cwd", "other"}

NoPath == [dir |-> "none", name |-> 0]

\* Path::new(&new_filename).exists(): a bare file name is resolved against
\* the working directory
Exists(name) == name \in fs["cwd"]

\* match output: Some(path) is returned as it is; None builds the first name
GMatchOutput ==
    /\ gpc = "call"
    /\ IF output # {}
       THEN /\ generated' = CHOOSE p \in output : TRUE
            /\ gpc' = "returned"
            /\ UNCHANGED << new_filename, counter >>
       ELSE /\ new_filename' = 0
            /\ counter' = 1
            /\ gpc' = "search"
            /\ UNCHANGED generated
    /\ UNCHANGED << input_dir, output, fs >>
    /\ UNCHANGED << batchVars, procVars, savVars >>

\* the body of the while loop: the name exists, try the next counter
GSearchStep ==
    /\ gpc = "search"
    /\ Exists(new_filename)
    /\ new_filename' = counter
    /\ counter' = counter + 1
    /\ UNCHANGED << input_dir, output, fs, gpc, generated >>
    /\ UNCHANGED << batchVars, procVars, savVars >>

\* the loop ends: input_path.with_file_name(new_filename)
GReturn ==
    /\ gpc = "search"
    /\ ~Exists(new_filename)
    /\ generated' = [dir |-> input_dir, name |-> new_filename]
    /\ gpc' = "returned"
    /\ UNCHANGED << input_dir, output, fs, new_filename, counter >>
    /\ UNCHANGED << batchVars, procVars, savVars >>

(***************************************************************************)
(* Initial states and specifications.                                      *)
(***************************************************************************)
\* the files collect_image_paths can find in the tree
Decodable == {1, 2, 4, 6}

BatchInit ==
    /\ inputKind \in {"dir", "file", "missing"}
    /\ present \in {s \in SUBSET EntryIds :
                       /\ inputKind # "dir" => s = {}
                       /\ 6 \in s => 5 \in s}
    /\ corrupt \in SUBSET ((present \cap Decodable)
                              \cup (IF inputKind = "file" THEN {0} ELSE {}))
    /\ outKind \in {"dir", "file", "absent"}
    /\ outCreatable \in (IF outKind = "absent" THEN BOOLEAN ELSE {FALSE})
    /\ outFiles = [n \in Names |-> "absent"]
    /\ poolSize = 0
    /\ calls = 0
    /\ max_threads \in 0..MaxThreads
    /\ recursive \in BOOLEAN
    /\ validated = FALSE
    /\ pc = "Idle"
    /\ image_paths = <<>>
    /\ task = <<>>
    /\ pbLen = 0
    /\ pos = 0
    /\ warned = <<>>
    /\ dirCreates = <<>>
    /\ completed = <<>>
    /\ phases = <<"Idle">>
    /\ result = NoResult

\* no batch run: the process has only the single call at hand
BatchIdle ==
    /\ inputKind = "missing"
    /\ present = {}
    /\ corrupt = {}
    /\ outKind = "absent"
    /\ outCreatable = FALSE
    /\ outFiles = [n \in Names |-> "absent"]
    /\ poolSize = 0
    /\ calls = MaxCalls
    /\ max_threads = 0
    /\ recursive = FALSE
    /\ validated = FALSE
    /\ pc = "Done"
    /\ image_paths = <<>>
    /\ task = <<>>
    /\ pbLen = 0
    /\ pos = 0
    /\ warned = <<>>
    /\ dirCreates = <<>>
    /\ completed = <<>>
    /\ phases = <<"Idle">>
    /\ result = NoResult

ProcInit ==
    /\ cfg \in [strip_metadata : BOOLEAN, width : DimValues, height : DimValues,
                 scale : ScaleValues]
    /\ srcState \in {"ok", "corrupt", "missing"}
    /\ destName \in DestNames
    /\ destBefore \in {"absent", "old"}
    /\ destNow = destBefore
    /\ destCreatable \in BOOLEAN
    /\ writeOk \in BOOLEAN
    /\ ppc = "load"
    /\ trace = <<>>
    /\ raised = NoError
    /\ mode = NoMode
    /\ format = "none"
    /\ presult = "none"

ProcIdle ==
    /\ cfg = [strip_metadata |-> FALSE, width |-> 0, height |-> 0, scale |-> 0]
    /\ srcState = "missing"
    /\ destName = <<"o">>
    /\ destBefore = "absent"
    /\ destNow = "absent"
    /\ destCreatable = FALSE
    /\ writeOk = FALSE
    /\ ppc = "returned"
    /\ trace = <<>>
    /\ raised = NoError
    /\ mode = NoMode
    /\ format = "none"
    /\ presult = "none"

SavInit ==
    /\ original_size \in SizeSamples
    /\ compressed_size \in SizeSamples
    /\ overflowChecks \in BOOLEAN
    /\ savings = [kind |-> "none", num |-> 0, den |-> 1]

SavIdle ==
    /\ original_size = 0
    /\ compressed_size = 0
    /\ overflowChecks = FALSE
    /\ savings = [kind |-> "idle", num |-> 0, den |-> 1]

PathInit ==
    /\ input_dir \in Dirs
    /\ output \in {{}} \cup {{p} : p \in [dir : Dirs, name : 0..MaxCandidate]}
    /\ fs \in [Dirs -> SUBSET (0..MaxCandidate)]
    /\ new_filename = 0
    /\ counter = 0
    /\ gpc = "call"
    /\ generated = NoPath

PathIdle ==
    /\ input_dir = "cwd"
    /\ output = {}
    /\ fs = [d \in Dirs |-> {}]
    /\ new_filename = 0
    /\ counter = 0
    /\ gpc = "idle"
    /\ generated = NoPath

Init == BatchInit /\ ProcIdle /\ SavIdle /\ PathIdle

InitProcess == BatchIdle /\ ProcInit /\ SavIdle /\ PathIdle

InitSavings == BatchIdle /\ ProcIdle /\ SavInit /\ PathIdle

InitOutputPath == BatchIdle /\ ProcIdle /\ SavIdle /\ PathInit

Next ==
    \/ ValidatePaths
    \/ SetUpPool
    \/ Discover
    \/ CreateOutputDir
    \/ \E k \in TaskIds : Tick(k)
    \/ \E k \in TaskIds : LoadStripResize(k)
    \/ \E k \in TaskIds : SaveCreate(k)
    \/ \E k \in TaskIds : SaveEncode(k)
    \/ SumResults
    \/ Finalize
    \/ NextCall

NextProcess ==
    \/ PLoad
    \/ PStrip
    \/ PResize
    \/ PSaveCreate
    \/ PSaveEncode

NextSavings == CalculateSavings

NextOutputPath ==
    \/ GMatchOutput
    \/ GSearchStep
    \/ GReturn

Spec == Init /\ [][Next]_vars

SpecProcess == InitProcess /\ [][NextProcess]_vars

SpecSavings == InitSavings /\ [][NextSavings]_vars

SpecOutputPath == InitOutputPath /\ [][NextOutputPath]_vars

(***************************************************************************)
(* Properties.                                                             *)
(***************************************************************************)
\* the regular files of the tree whose extension, lower-cased, is one of
\* jpg jpeg png gif bmp tiff tif webp: a.jpg, b.PNG, c.webp and s.jpg/a.jpg
\* (n.txt is not, and s.jpg is a directory)
SupportedFiles == {1, 2, 4, 6}

\* the entries the traversal of this run covers
InScope(i) == i \in present /\ (Entry[i].depth = 1 \/ recursive)

\* the run went through its tasks and process_directory returned
RunFinished == pc = "Done" /\ task # <<>>

\* the tasks whose pipeline failed
FailedTasks == {k \in TaskIds : task[k].st = "done" /\ task[k].res = 0}

\* the tasks the image pipeline was invoked on
HandedTasks == {k \in TaskIds : task[k].st \in {"save", "open", "done"}}

\* C1: a failing file aborts neither the run nor another task: once the run
\* has gone through its tasks every task ran to completion and
\* process_directory returned Ok, and every failed file has an entry
\* (file path, error) in the returned value.
C1_FailuresIsolatedAndReturned ==
    (inputKind = "dir" /\ RunFinished) =>
        /\ result.kind = "Ok"
        /\ \A k \in TaskIds : task[k].st = "done"
        /\ \A k \in FailedTasks :
               \E j \in DOMAIN result.errors :
                   result.errors[j].context = image_paths[k]

\* C2: with exactly one failing file among the N discovered, the run
\* returns Ok with processed_count = N - 1 and an error list of exactly one
\* entry, which names that file.  (The returned value has no size sums; the
\* count and the error list are what it can be asked for.)
C2_OneCorruptFileReported ==
    (inputKind = "dir" /\ RunFinished /\ Cardinality(FailedTasks) = 1) =>
        /\ result.kind = "Ok"
        /\ result.processed_count = Len(image_paths) - 1
        /\ Len(result.errors) = 1
        /\ \A k \in FailedTasks : result.errors[1].context = image_paths[k]

\* C3: over a directory, only supported regular files are ever discovered,
\* handed to the pipeline or reported; when process_directory returns Ok the
\* discovered files are exactly the supported files the traversal covers,
\* each once, each handed to the pipeline, and processed_count is their
\* number when none of them failed.
C3_ExactlySupportedFilesProcessed ==
    inputKind = "dir" =>
        /\ \A k \in DOMAIN image_paths : image_paths[k] \in SupportedFiles
        /\ \A j \in DOMAIN warned : warned[j].context \in SupportedFiles
        /\ (pc = "Done" /\ result.kind = "Ok") =>
               LET n == Cardinality({i \in SupportedFiles : InScope(i)})
               IN  /\ {image_paths[k] : k \in DOMAIN image_paths}
                          = {i \in SupportedFiles : InScope(i)}
                   /\ Len(image_paths) = n
                   /\ HandedTasks = DOMAIN image_paths
                   /\ (\A k \in TaskIds : task[k].err = "none")
                          => result.processed_count = n

\* a run over supported files in both letter cases, a text file and a
\* directory with an image extension, which processed the two images
C3_Witness ==
    /\ pc = "Done"
    /\ result.kind = "Ok"
    /\ {1, 2, 3, 5} \subseteq present
    /\ Len(image_paths) = 2
    /\ result.processed_count = 2

\* C4: process_directory returns Err only for an invalid input or output
\* directory or an output directory tree it cannot create, at every call of
\* the process and for every thread count.
C4_OnlyRunLevelErrors ==
    (result.kind = "Err" /\ result.by = "process_directory") =>
        result.cause \in {"input_missing", "input_not_dir", "output_not_dir",
                          "create_dir"}

\* the output directory cannot be created
OutputUncreatable ==
    outKind = "file" \/ (outKind = "absent" /\ ~outCreatable)

\* C5: when the input directory is missing or not a directory, or the output
\* directory cannot be created, no file is ever handed to the pipeline and
\* process_directory returns Err.
C5_BadDirectoriesAbortFirst ==
    (inputKind # "dir" \/ OutputUncreatable) =>
        /\ HandedTasks = {}
        /\ (pc = "Done" /\ result.by = "process_directory") => result.kind = "Err"

\* C6: in one run the destination paths of two distinct discovered files
\* differ, so two tasks never have the same destination file open for
\* writing at once.
C6_DistinctDestinations ==
    \A k, j \in TaskIds :
        (k # j /\ task[k].st = "open" /\ task[j].st = "open")
            => output_path(image_paths[k]) # output_path(image_paths[j])

\* C7: when process returns an error the destination is as it was before the
\* call: no new, empty or truncated file, and an old file unchanged.  Stated
\* for the calls in which every write to the file system succeeds.
C7_NoPartialWrites ==
    (ppc = "returned" /\ presult \notin {"none", "Ok"} /\ writeOk)
        => destNow = destBefore

\* C8: calculate_savings returns a value within [0, 100], and 0 when the
\* output is larger than the input; it never faults.
C8_SavingsWithinRange ==
    savings.kind \notin {"none", "idle"} =>
        /\ savings.kind = "value"
        /\ 0 <= savings.num
        /\ savings.num <= 100 * savings.den
        /\ compressed_size > original_size => savings.num = 0

\* position of a stage in the order Load, Strip, Resize, Encode+Save
StageRank(st) ==
    CASE st = "Load" -> 1 [] st = "Strip" -> 2 [] st = "Resize" -> 3 [] OTHER -> 4

\* the stages that ran
StagesRun == {trace[k] : k \in DOMAIN trace}

\* C9: the stages of process run in the order Load, Strip, Resize,
\* Encode+Save, Load first; Strip runs only with strip_metadata and Resize
\* only with a nonzero width, height or scale; a stage that returns an error
\* is the last to run and its error is what process returns; a call that
\* reaches the save has run the strip it was asked for.
C9_StagesInOrderShortCircuit ==
    /\ \A a, b \in DOMAIN trace : a < b => StageRank(trace[a]) < StageRank(trace[b])
    /\ trace # <<>> => trace[1] = "Load"
    /\ "Strip" \in StagesRun => cfg.strip_metadata
    /\ "Resize" \in StagesRun => (cfg.width # 0 \/ cfg.height # 0 \/ cfg.scale # 0)
    /\ ("Save" \in StagesRun /\ cfg.strip_metadata) => "Strip" \in StagesRun
    /\ raised # NoError =>
           /\ ppc = "returned"
           /\ trace[Len(trace)] = raised.stage
           /\ presult = raised.error
    /\ (ppc = "returned" /\ trace # <<>> /\ raised = NoError) =>
           /\ presult = "Ok"
           /\ "Save" \in StagesRun

\* a call asked to strip and to resize whose load failed, and which returned
\* the load's error having run nothing else
C9_Witness ==
    /\ ppc = "returned"
    /\ cfg.strip_metadata
    /\ cfg.width > 0
    /\ trace = <<"Load">>
    /\ raised.stage = "Load"
    /\ presult = "ProcessingError"

\* the tasks that ran to completion
DoneTasks == {k \in TaskIds : task[k].st = "done"}

\* C10: the progress counter is advanced once after each completed file, so
\* it never exceeds the number of completed files, and it equals the number
\* of discovered files when the run returns.
C10_ProgressAfterCompletion ==
    inputKind = "dir" =>
        /\ pc = "Processing" => pos <= Cardinality(DoneTasks)
        /\ RunFinished => pos = Len(image_paths)

\* the files of the tree whose pipeline succeeds: they decode, and their
\* destination is not a .webp file
ExpectedSuccesses ==
    {i \in SupportedFiles : InScope(i) /\ i \notin corrupt /\ i # 4}

\* C11: the processed count a run returns is the same in every interleaving
\* and completion order of its workers: it is the number of discovered files
\* whose pipeline succeeds, which the tree and the files alone determine.
C11_AggregateOrderIndependent ==
    (inputKind = "dir" /\ RunFinished) =>
        /\ result.kind = "Ok"
        /\ result.processed_count = Cardinality(ExpectedSuccesses)

\* a run whose second discovered file completed before the first, one of the
\* two failing and the other succeeding
C11_Witness ==
    /\ inputKind = "dir"
    /\ RunFinished
    /\ Len(completed) = 2
    /\ completed[1] = 2
    /\ task[1].res = 0
    /\ task[2].res = 1
    /\ result.processed_count = 1

\* process_directory returned one of the run-level errors: an invalid input
\* or output directory, or an output directory tree it could not create
RunLevelError ==
    /\ result.kind = "Err"
    /\ result.cause \in {"input_missing", "input_not_dir", "output_not_dir",
                         "create_dir"}

\* C12: a run of process_directory that returned without a run-level error
\* went through Idle, Discovering, Processing, Finalizing, Done in that order
\* and returned Ok, or through Idle, Discovering, Done with Ok(0) when nothing
\* was discovered; tasks exist only once discovery is over, and the value is
\* returned only when every task has completed.
C12_PhasesInOrder ==
    /\ task # <<>> => (Len(task) = Len(image_paths) /\ "Discovering" \in
                           {phases[k] : k \in DOMAIN phases})
    /\ (pc = "Done" /\ result.by = "process_directory" /\ ~RunLevelError) =>
           /\ result.kind = "Ok"
           /\ \A k \in TaskIds : task[k].st = "done"
           /\ \/ phases = <<"Idle", "Discovering", "Processing", "Finalizing", "Done">>
              \/ /\ phases = <<"Idle", "Discovering", "Done">>
                 /\ image_paths = <<>>
                 /\ result.processed_count = 0

\* C13: a file the encoder wrote is in the format its destination's extension
\* names, whatever the letter case of the extension, and JPEG when the
\* extension names no format (the encoder takes no explicit target format).
C13_FormatFromExtension ==
    (ppc = "returned" /\ presult = "Ok") =>
        format = detect_format(ToLowercase(destName))

\* C14: once a run has fanned out, the output directory exists and
\* create_dir_all has been called exactly once, by the driver; this holds
\* from the moment the first task is queued to the end of the run, so the
\* creation precedes every worker step and no worker creates a directory.
C14_DirectoryCreatedOnceByDriver ==
    task # <<>> =>
        /\ dirCreates = <<"driver">>
        /\ outKind = "dir"

\* two workers have created their files and one has finished, after the
\* driver's single creation
C14_Witness ==
    /\ pc = "Processing"
    /\ dirCreates = <<"driver">>
    /\ \E j, k \in TaskIds : j # k /\ task[j].st = "open" /\ task[k].st = "done"
                                   /\ task[k].res = 1

\* C15: a run has one task per discovered file, no file twice; no task's
\* pipeline is ever invoked more than once, a task past its worker's pick-up
\* has been invoked exactly once, and when the run returns every task has
\* been invoked exactly once.
C15_PipelineOncePerFile ==
    inputKind = "dir" =>
        /\ \A j, k \in DOMAIN image_paths :
               image_paths[j] = image_paths[k] => j = k
        /\ task # <<>> =>
               /\ Len(task) = Len(image_paths)
               /\ {image_paths[k] : k \in DOMAIN image_paths}
                      = {i \in EntryIds : Discovered(i)}
        /\ \A k \in TaskIds :
               /\ task[k].runs <= 1
               /\ task[k].st \in {"save", "open", "done"} => task[k].runs = 1
        /\ RunFinished => \A k \in TaskIds : task[k].runs = 1

\* a finished run over three files, one of which failed to load and one of
\* which failed to encode
C15_Witness ==
    /\ inputKind = "dir"
    /\ RunFinished
    /\ Len(task) = 3
    /\ \E k \in TaskIds : task[k].err = "ProcessingError"
    /\ \E k \in TaskIds : task[k].err = "Image"
    /\ \A k \in TaskIds : task[k].runs = 1

\* C16: in a call of process that got past the resize step, the resizer was
\* called exactly when width, height or scale is nonzero, and the mode it was
\* given is Scale(scale) when scale is nonzero, whatever width and height
\* are, and Absolute(width, height) otherwise.
C16_ScaleOverridesDimensions ==
    (ppc \in {"save", "encode"} \/ "Save" \in StagesRun) =>
        /\ "Resize" \in StagesRun
               <=> (cfg.width # 0 \/ cfg.height # 0 \/ cfg.scale # 0)
        /\ "Resize" \in StagesRun =>
               mode = IF cfg.scale # 0
                      THEN [kind |-> "Scale", factor |-> cfg.scale,
                            width |-> 0, height |-> 0]
                      ELSE [kind |-> "Absolute", factor |-> 0,
                            width |-> cfg.width, height |-> cfg.height]

\* C17: generate_output_path returns an explicit output path as it is;
\* without one it returns a path in the input file's directory that names
\* no existing file, whichever directory the input is in, and the search
\* tries no more names than there are files, plus one.
C17_GeneratedPathIsFresh ==
    /\ counter <= Cardinality(fs["cwd"]) + 1
    /\ gpc = "returned" =>
           IF output # {}
           THEN generated \in output
           ELSE /\ generated.dir = input_dir
                /\ generated.name \notin fs[input_dir]

\* the tasks whose pipeline returned Ok, and those whose pipeline returned Err
SucceededTasks == {k \in TaskIds : task[k].st = "done" /\ task[k].err = "none"}

ErroredTasks == {k \in TaskIds : task[k].st = "done" /\ task[k].err # "none"}

\* C18: when process_directory returns Ok, the count it returns is the
\* number of discovered files whose pipeline succeeded; with the number of
\* files that failed (each logged once) it adds up to the number of
\* discovered files, which it never exceeds.
C18_CountsAddUp ==
    (pc = "Done" /\ result.by = "process_directory" /\ result.kind = "Ok") =>
        /\ result.processed_count = Cardinality(SucceededTasks)
        /\ Len(warned) = Cardinality(ErroredTasks)
        /\ result.processed_count + Cardinality(ErroredTasks) = Len(image_paths)
        /\ result.processed_count <= Len(image_paths)

\* a run over three files that returned 2: two were written, the third
\* could not be encoded
C18_Witness ==
    /\ pc = "Done"
    /\ result.kind = "Ok"
    /\ Len(image_paths) = 3
    /\ result.processed_count = 2
    /\ Cardinality(ErroredTasks) = 1
    /\ \E k \in TaskIds : task[k].err = "Image"

====
